---- MODULE Spec2Model ----
(***************************************************************************)
(* Model of the supermarket sales dashboard (src/app.py): the load step    *)
(* with its column normalisation and its TTL cache, the refresh cycle, the *)
(* filter over the record store, the grouped aggregates and the 7-day      *)
(* trend.                                                                  *)
(*                                                                         *)
(* Text is modelled as sequences of characters.  The Chinese labels of the *)
(* source are written in pinyin, one TLA+ string per character:            *)
(*   "ri","qi" = the date label, "xiao","shou","di","qu" = the canonical   *)
(*   region label, "di","qu" = the region marker, "lei","bie" = the        *)
(*   category label.  "dq" is the double quote, "sq" the single quote and  *)
(*   "sp" a blank.                                                         *)
(* Money is counted in whole units (integers), so sums are exact.          *)
(***************************************************************************)
EXTENDS Integers, Sequences, FiniteSets

VARIABLES
    raw_columns,   \* labels of the sheet as read by pd.read_excel
    df_columns,    \* labels after load_sales_data's normalisation
    norm_pc,       \* "raw" before the normalisation ran, "done" after
    file,          \* the data file: exists, mtime, content
    clock,         \* wall clock, in ticks of TickSeconds
    cache,         \* st.cache_data store of load_sales_data, keyed by mtime
    held,          \* token and load time of the record set last returned
    run,           \* the script run: its position and what it produced
    raw_df,        \* the record store: rows sorted by timestamp
    crit,          \* widget state: date_range, selections, search_keyword
    page,          \* what one script run rendered from raw_df and crit
    daily_sales,   \* the daily series the trend is computed from
    trend          \* recent_7, prev_7, trend_pct, trend_direction

vars == <<raw_columns, df_columns, norm_pc, file, clock, cache, held, run,
          raw_df, crit, page, daily_sales, trend>>

normVars == <<raw_columns, df_columns, norm_pc>>
cycleVars == <<file, clock, cache, held, run>>
filterVars == <<raw_df, crit, page>>
trendVars == <<daily_sales, trend>>

(***************************************************************************)
(* Bounds of the model.                                                    *)
(***************************************************************************)
MaxCols == 3
MaxTicks == 3
MaxRecords == 3
MaxDays == 15

(***************************************************************************)
(* Generic helpers.                                                        *)
(***************************************************************************)
Range(s) == {s[i] : i \in 1..Len(s)}

SeqsUpTo(S, n) == UNION {[1..k -> S] : k \in 0..n}

Min(a, b) == IF a <= b THEN a ELSE b

Max(a, b) == IF a >= b THEN a ELSE b

Abs(x) == IF x >= 0 THEN x ELSE -x

\* `sub in s` of Python strings: sub occurs as a contiguous run of s.
Contains(sub, s) ==
    \E off \in 0..(Len(s) - Len(sub)) :
        \A i \in 1..Len(sub) : s[off + i] = sub[i]

(***************************************************************************)
(* Column labels.  A label is a string or something else (pandas gives an  *)
(* integer label to a numeric header); chars is str(label).                *)
(***************************************************************************)
Str(cs) == [isStr |-> TRUE, chars |-> cs]

NonStr(cs) == [isStr |-> FALSE, chars |-> cs]

DateLabel == Str(<<"ri", "qi">>)

RegionLabel == Str(<<"xiao", "shou", "di", "qu">>)

CategoryLabel == Str(<<"lei", "bie">>)

RegionMarker == <<"di", "qu">>

Whitespace == {"sp"}

\* str.replace(ch, ""): every occurrence goes, wherever it stands.
RECURSIVE RemoveChar(_, _)
RemoveChar(cs, ch) ==
    IF cs = <<>> THEN <<>>
    ELSE IF Head(cs) = ch THEN RemoveChar(Tail(cs), ch)
    ELSE <<Head(cs)>> \o RemoveChar(Tail(cs), ch)

RECURSIVE LStrip(_)
LStrip(cs) ==
    IF cs # <<>> /\ Head(cs) \in Whitespace THEN LStrip(Tail(cs)) ELSE cs

RECURSIVE RStrip(_)
RStrip(cs) ==
    IF cs # <<>> /\ cs[Len(cs)] \in Whitespace
    THEN RStrip(SubSeq(cs, 1, Len(cs) - 1))
    ELSE cs

\* str.strip(): blanks go from both ends only.
Strip(cs) == RStrip(LStrip(cs))

\* app.py 28-31: quotes removed, then stripped; a non-string label is kept.
CleanLabel(c) ==
    IF c.isStr
    THEN Str(Strip(RemoveChar(RemoveChar(c.chars, "dq"), "sq")))
    ELSE c

\* app.py 26-33
CleanColumns(cols) == [i \in 1..Len(cols) |-> CleanLabel(cols[i])]

\* app.py 38: the columns whose str() contains the region marker.
CandidateCols(cols) == SelectSeq(cols, LAMBDA c : Contains(RegionMarker, c.chars))

\* DataFrame.rename(columns={old: new}): every column labelled old is relabelled.
Rename(cols, old, new) ==
    [i \in 1..Len(cols) |-> IF cols[i] = old THEN new ELSE cols[i]]

\* A plausible slip: the first candidate is taken whenever there is one.
RepairRegionFirstCandidate(cols) ==
    IF RegionLabel \notin Range(cols) /\ Len(CandidateCols(cols)) >= 1
    THEN Rename(cols, CandidateCols(cols)[1], RegionLabel)
    ELSE cols

\* app.py 36-40
RepairRegion(cols) ==
    IF RegionLabel \notin Range(cols) /\ Len(CandidateCols(cols)) = 1
    THEN Rename(cols, CandidateCols(cols)[1], RegionLabel)
    ELSE cols

\* app.py 25-41: the column part of load_sales_data.
NormalizeColumns(cols) == RepairRegion(CleanColumns(cols))

(***************************************************************************)
(* Specification SpecNorm: the normalisation applied to every header row   *)
(* of up to MaxCols labels drawn from RawLabels.                           *)
(***************************************************************************)
RawLabels ==
    { DateLabel,
      RegionLabel,
      CategoryLabel,
      Str(<<"dq", "xiao", "shou", "di", "qu", "dq">>),  \* quoted canonical
      Str(<<"sp", "di", "qu", "sp">>),                  \* padded marker
      Str(<<"sq", "di", "qu", "ming">>),                \* marker inside a name
      Str(<<"di", "dq", "qu">>),                        \* marker once unquoted
      Str(<<"di", "sp", "qu">>),                        \* inner blank: no marker
      NonStr(<<"0">>) }

NormIdle == raw_columns = <<>> /\ df_columns = <<>> /\ norm_pc = "off"

CycleIdle ==
    /\ file = "off" /\ clock = 0 /\ cache = "off" /\ held = "off" /\ run = "off"

FilterIdle == raw_df = <<>> /\ crit = "off" /\ page = "off"

TrendIdle == daily_sales = <<>> /\ trend = "off"

NormInit ==
    /\ raw_columns \in SeqsUpTo(RawLabels, MaxCols)
    /\ df_columns = <<>>
    /\ norm_pc = "raw"
    /\ CycleIdle /\ FilterIdle /\ TrendIdle

\* load_sales_data's column normalisation on the sheet read.
NormLoad ==
    /\ norm_pc = "raw"
    /\ df_columns' = NormalizeColumns(raw_columns)
    /\ norm_pc' = "done"
    /\ UNCHANGED <<raw_columns, cycleVars, filterVars, trendVars>>

\* The sheet's header is edited (one label retyped) before the next load.
NormEditHeader ==
    /\ norm_pc = "done"
    /\ \E i \in 1..Len(raw_columns), l \in RawLabels :
           raw_columns' = [raw_columns EXCEPT ![i] = l]
    /\ df_columns' = <<>>
    /\ norm_pc' = "raw"
    /\ UNCHANGED <<cycleVars, filterVars, trendVars>>

NormNext == NormLoad \/ NormEditHeader

SpecNorm == NormInit /\ [][NormNext]_vars

\* The positions of the cleaned header whose label contains the region marker.
MarkerPositions(cols) ==
    {i \in 1..Len(cols) : Contains(RegionMarker, cols[i].chars)}

\* C8: region repair. With the canonical region label absent from the cleaned
\* header and exactly one column containing the marker, exactly that column is
\* renamed to the canonical label and every other label is the cleaned one; with
\* zero or several candidates, or the canonical label present, nothing is renamed.
C8_RegionRepair ==
    norm_pc = "done" =>
        LET clean == CleanColumns(raw_columns)
            cands == MarkerPositions(clean)
        IN  /\ Len(df_columns) = Len(clean)
            /\ IF RegionLabel \notin Range(clean) /\ Cardinality(cands) = 1
               THEN \A i \in 1..Len(clean) :
                        df_columns[i] = IF i \in cands THEN RegionLabel ELSE clean[i]
               ELSE df_columns = clean

\* The repair acted: one candidate among other columns was renamed.
C8_Witness ==
    /\ norm_pc = "done"
    /\ RegionLabel \notin Range(CleanColumns(raw_columns))
    /\ Cardinality(MarkerPositions(CleanColumns(raw_columns))) = 1
    /\ Len(raw_columns) = 3
    /\ df_columns # CleanColumns(raw_columns)

(***************************************************************************)
(* The trend (app.py 215-236) over a daily series: rows (date, sales) in   *)
(* ascending date order.  Averages are exact rationals num/den.            *)
(***************************************************************************)
\* DataFrame.tail(n): the last n rows, all of them when there are fewer.
TailN(s, n) == SubSeq(s, Max(1, Len(s) - n + 1), Len(s))

\* DataFrame.head(n): the first n rows, all of them when there are fewer.
HeadN(s, n) == SubSeq(s, 1, Min(n, Len(s)))

RECURSIVE SumSales(_)
SumSales(s) == IF s = <<>> THEN 0 ELSE Head(s).sales + SumSales(Tail(s))

RECURSIVE GCD(_, _)
GCD(a, b) == IF b = 0 THEN a ELSE GCD(b, a % b)

Zero == [num |-> 0, den |-> 1]

\* The rational n/d, d > 0, in lowest terms.
Ratio(n, d) ==
    LET g == GCD(Abs(n), d)
    IN  [num |-> n \div g, den |-> d \div g]

TrendWindow == 7

\* app.py 223-236. prev_7 is not assigned when the series has at most 7 rows.
TrendOf(ds) ==
    LET recent_7 == TailN(ds, TrendWindow)
        prev_7 == HeadN(TailN(ds, 2 * TrendWindow), TrendWindow)
        rs == SumSales(recent_7)
        ps == SumSales(prev_7)
        \* (recent_avg - prev_avg) / prev_avg * 100, with avg = sum / len
        pct == IF Len(ds) > TrendWindow /\ ps > 0
               THEN Ratio((rs * Len(prev_7) - ps * Len(recent_7)) * 100,
                          ps * Len(recent_7))
               ELSE Zero
    IN  [ recent_7 |-> recent_7,
          prev_7 |-> IF Len(ds) > TrendWindow THEN prev_7 ELSE <<>>,
          trend_pct |-> pct,
          trend_direction |-> IF pct.num >= 0 THEN "up" ELSE "down",
          trend_display_pct |-> [pct EXCEPT !.num = Abs(pct.num)] ]

(***************************************************************************)
(* Specification SpecTrend: the trend recomputed as the daily series grows *)
(* by one day at a time, up to MaxDays days.                               *)
(***************************************************************************)
SalesValues == {0, 1}

TrendInit ==
    /\ \E v \in SalesValues : daily_sales = <<[date |-> 1, sales |-> v]>>
    /\ trend = TrendOf(daily_sales)
    /\ NormIdle /\ CycleIdle /\ FilterIdle

\* A further day of sales is in the view and the script runs again.
TrendNewDay ==
    /\ Len(daily_sales) < MaxDays
    /\ \E v \in SalesValues :
           daily_sales' = Append(daily_sales,
                                 [date |-> Len(daily_sales) + 1, sales |-> v])
    /\ trend' = TrendOf(daily_sales')
    /\ UNCHANGED <<normVars, cycleVars, filterVars>>

TrendNext == TrendNewDay

SpecTrend == TrendInit /\ [][TrendNext]_vars

\* The `previous` window as specified: the rows right before the last 7, at
\* most 7 of them (0-based positions [max(0, n-14), n-7)).
PreviousWindow(ds) ==
    SubSeq(ds, Max(1, Len(ds) - 2 * TrendWindow + 1), Len(ds) - TrendWindow)

\* C2: for a series of n > 7 rows the previous window is the rows at positions
\* [max(0, n-14), n-7), and it shares no row with the recent window.
C2_PreviousWindow ==
    Len(daily_sales) > TrendWindow =>
        /\ trend.prev_7 = PreviousWindow(daily_sales)
        /\ Range(trend.prev_7) \cap Range(trend.recent_7) = {}

\* C3: with at most 7 rows the trend is 0 and up; with more rows and a previous
\* window (as specified) averaging exactly 0 the magnitude is 0.
C3_TrendBoundary ==
    /\ Len(daily_sales) <= TrendWindow =>
           trend.trend_display_pct = Zero /\ trend.trend_direction = "up"
    /\ (Len(daily_sales) > TrendWindow
        /\ SumSales(PreviousWindow(daily_sales)) = 0) =>
           trend.trend_display_pct = Zero

\* The zero guard on the window the code itself takes: a prev_7 summing to 0
\* gives magnitude 0 and direction up; so does a series of at most 7 rows.
TrendGuardOnComputedWindow ==
    (Len(daily_sales) <= TrendWindow \/ SumSales(trend.prev_7) = 0) =>
        trend.trend_display_pct = Zero /\ trend.trend_direction = "up"

\* From 14 rows on the window taken is the window specified.
PreviousWindowFrom14 ==
    Len(daily_sales) >= 2 * TrendWindow =>
        trend.prev_7 = PreviousWindow(daily_sales)

(***************************************************************************)
(* The refresh cycle (app.py 18-96): getmtime, the cached load, the        *)
(* sidebar's column lookups, the filter.  st.cache_data keeps one entry    *)
(* per argument value (here per file_mtime); an entry is served until ttl  *)
(* seconds after the load that made it, and a store drops expired entries. *)
(***************************************************************************)
TTL == 300

\* One tick of the model's clock, in seconds.
TickSeconds == TTL \div 2

Mtimes == {1, 2}

NoEntry == [at |-> -1, columns |-> <<>>]

NoDf == [columns |-> <<>>, loaded |-> FALSE]

\* The contents the data file can have: its header and what its date cells are.
Sources ==
    { [cols |-> <<DateLabel, CategoryLabel, RegionLabel>>, dates |-> "datetime"],
      [cols |-> <<Str(<<"sq", "ri", "qi", "sq">>), CategoryLabel,
                  Str(<<"sp", "di", "qu", "sp">>)>>, dates |-> "text"],
      [cols |-> <<DateLabel, CategoryLabel, Str(<<"sp", "di", "qu", "sp">>),
                  Str(<<"sq", "di", "qu", "ming">>)>>, dates |-> "datetime"],
      [cols |-> <<DateLabel, CategoryLabel>>, dates |-> "text"],
      [cols |-> <<CategoryLabel, RegionLabel>>, dates |-> "datetime"],
      [cols |-> <<DateLabel, CategoryLabel, RegionLabel>>, dates |-> "garbage"],
      [cols |-> <<DateLabel, RegionLabel>>, dates |-> "datetime"] }

\* cachetools.TTLCache: an entry expires once ttl seconds have passed.
Fresh(entry, now) ==
    entry # NoEntry /\ (now - entry.at) * TickSeconds < TTL

\* A plausible slip: the cache is asked before the file is looked at.
GetmtimeRaisesUnlessCached(f, c, now) ==
    ~f.exists /\ ~Fresh(c[f.mtime], now)

\* app.py 51: os.path.getmtime raises FileNotFoundError on a missing file.
GetmtimeRaises(f, c, now) == ~f.exists

\* app.py 24-46, the body of load_sales_data: "missing" when read_excel finds
\* no file, "error" when the date column is absent (KeyError) or its cells do
\* not parse (pd.to_datetime raises), else the normalised header.
LoadSalesData(f) ==
    LET cols == NormalizeColumns(f.content.cols)
    IN  IF ~f.exists THEN [result |-> "missing", columns |-> <<>>]
        ELSE IF DateLabel \notin Range(cols) \/ f.content.dates = "garbage"
        THEN [result |-> "error", columns |-> <<>>]
        ELSE [result |-> "ok", columns |-> cols]

\* The store of a new entry: expired entries go, the new one is kept.
CacheStore(c, token, now, cols) ==
    [t \in Mtimes |-> IF t = token THEN [at |-> now, columns |-> cols]
                      ELSE IF Fresh(c[t], now) THEN c[t] ELSE NoEntry]

\* app.py 57-96 on the record set obtained: the category lookup (76) and the
\* region lookup (83) raise KeyError on a missing column; else the mask is
\* computed and the page rendered.
AfterLoad(cols, reloaded) ==
    LET ok == CategoryLabel \in Range(cols) /\ RegionLabel \in Range(cols)
    IN  [ status |-> IF ok THEN "rendered" ELSE "key_error",
          raw_df |-> [columns |-> cols, loaded |-> TRUE],
          reloaded |-> reloaded,
          filtered |-> ok ]

Halted(status, reloaded) ==
    [status |-> status, raw_df |-> NoDf, reloaded |-> reloaded, filtered |-> FALSE]

\* app.py 48-96: one run of the script, as [run, cache, held].
RunScript(f, c, h, now) ==
    IF GetmtimeRaises(f, c, now)
    THEN [run |-> Halted("source_unavailable", FALSE), cache |-> c, held |-> h]
    ELSE IF Fresh(c[f.mtime], now)
    THEN [ run |-> AfterLoad(c[f.mtime].columns, FALSE),
           cache |-> c,
           held |-> [h EXCEPT !.token = f.mtime] ]
    ELSE LET loaded == LoadSalesData(f)
         IN  CASE loaded.result = "missing" ->
                    [run |-> Halted("source_unavailable", FALSE), cache |-> c, held |-> h]
               [] loaded.result = "error" ->
                    [run |-> Halted("load_error", TRUE), cache |-> c, held |-> h]
               [] OTHER ->
                    [ run |-> AfterLoad(loaded.columns, TRUE),
                      cache |-> CacheStore(c, f.mtime, now, loaded.columns),
                      held |-> [token |-> f.mtime, reloaded_at |-> now] ]

(***************************************************************************)
(* Specification SpecCycle: script runs interleaved with the file being    *)
(* written, deleted and time passing.                                      *)
(***************************************************************************)
CycleInit ==
    /\ file \in [exists : BOOLEAN, mtime : {1}, content : Sources]
    /\ clock = 0
    /\ cache = [t \in Mtimes |-> NoEntry]
    /\ held = [token |-> 0, reloaded_at |-> 0]
    /\ run = Halted("running", FALSE)
    /\ NormIdle /\ FilterIdle /\ TrendIdle

\* Streamlit starts a run of the script (a widget changed, the page reloaded).
CycleRerun ==
    /\ run.status # "running"
    /\ run' = Halted("running", FALSE)
    /\ UNCHANGED <<file, clock, cache, held, normVars, filterVars, trendVars>>

\* The script runs to its end or to the first uncaught exception or st.stop().
CycleRunScript ==
    /\ run.status = "running"
    /\ LET r == RunScript(file, cache, held, clock)
       IN  run' = r.run /\ cache' = r.cache /\ held' = r.held
    /\ UNCHANGED <<file, clock, normVars, filterVars, trendVars>>

\* The file is written or replaced; its mtime is whatever the writer leaves.
CycleWriteFile ==
    /\ \E m \in Mtimes, s \in Sources :
           file' = [exists |-> TRUE, mtime |-> m, content |-> s]
    /\ UNCHANGED <<clock, cache, held, run, normVars, filterVars, trendVars>>

CycleDeleteFile ==
    /\ file.exists
    /\ file' = [file EXCEPT !.exists = FALSE]
    /\ UNCHANGED <<clock, cache, held, run, normVars, filterVars, trendVars>>

CycleTick ==
    /\ clock < MaxTicks
    /\ clock' = clock + 1
    /\ UNCHANGED <<file, cache, held, run, normVars, filterVars, trendVars>>

CycleNext ==
    \/ CycleRerun
    \/ CycleRunScript
    \/ CycleWriteFile
    \/ CycleDeleteFile
    \/ CycleTick

SpecCycle == CycleInit /\ [][CycleNext]_vars

\* The step in which the script runs.
RunStep == run.status = "running" /\ run'.status # "running"

\* C5: with the file present, a run re-reads the source iff its mtime differs
\* from the token of the record set held or ttl seconds have passed since the
\* last reload; with an equal token and ttl not elapsed the held set is reused.
C5_ReloadPolicy ==
    [][(RunStep /\ file.exists) =>
          (run'.reloaded <=>
              (file.mtime # held.token
               \/ (clock - held.reloaded_at) * TickSeconds >= TTL))]_vars

\* After label cleaning the canonical region column is absent and the columns
\* containing the marker are not exactly one.
RegionUnresolved(cols) ==
    LET clean == CleanColumns(cols)
    IN  RegionLabel \notin Range(clean) /\ Cardinality(MarkerPositions(clean)) # 1

\* C6 as stated: a load of a source whose region column cannot be resolved
\* fails in the load step and yields no record set.
C6_LoadFailsOnUnresolvedRegion ==
    [][(RunStep /\ run'.reloaded /\ RegionUnresolved(file.content.cols)) =>
          (run'.status = "load_error" /\ run'.raw_df = NoDf)]_vars

\* C6 amended: a load of such a source whose date column is present and
\* parses returns, and caches, a record set without the canonical region
\* column; the run then stops with KeyError at the sidebar's column lookup,
\* before the filter, and renders nothing.
C6_UnresolvedRegionFailsAfterLoad ==
    [][(RunStep /\ run'.reloaded
        /\ RegionUnresolved(file.content.cols)
        /\ DateLabel \in Range(CleanColumns(file.content.cols))
        /\ file.content.dates # "garbage") =>
          /\ run'.raw_df.loaded
          /\ run'.raw_df.columns = CleanColumns(file.content.cols)
          /\ RegionLabel \notin Range(run'.raw_df.columns)
          /\ cache'[file.mtime] = [at |-> clock, columns |-> run'.raw_df.columns]
          /\ run'.status = "key_error"
          /\ ~run'.filtered]_vars

\* A load returned a record set with a category column and no region column,
\* and the run stopped at the region lookup.
C6_Witness ==
    /\ run.status = "key_error"
    /\ run.reloaded
    /\ run.raw_df.loaded
    /\ CategoryLabel \in Range(run.raw_df.columns)
    /\ RegionLabel \notin Range(run.raw_df.columns)
    /\ Fresh(cache[file.mtime], clock)

\* C7: a run that finds the file missing reports it and stops before the
\* load: nothing is read, no record set (cached or empty) is served and
\* nothing is filtered or rendered; the cache is left as it was.
C7_SourceUnavailable ==
    [][(RunStep /\ ~file.exists) =>
          /\ run'.status = "source_unavailable"
          /\ run'.raw_df = NoDf
          /\ ~run'.reloaded
          /\ ~run'.filtered
          /\ cache' = cache]_vars

\* The file is missing, the run reported it, and a record set loaded earlier
\* under the file's last mtime is still within its ttl.
C7_Witness ==
    /\ ~file.exists
    /\ run.status = "source_unavailable"
    /\ Fresh(cache[file.mtime], clock)
    /\ RegionLabel \in Range(cache[file.mtime].columns)

(***************************************************************************)
(* The record store, the filter and the aggregates (app.py 57-96, 205-394).*)
(* A row is [ts, category, product, region, amount]: ts is the timestamp   *)
(* of the date column (ten time units to the day), product a string over   *)
(* the characters "a", "b", "A", "B", "." and "(", amount the row's total. *)
(***************************************************************************)
\* app.py 59: .dt.date, the day of a timestamp.
DateOnly(ts) == ts \div 10

\* app.py 58-59: raw_df rows carry the date-only column.
WithDateOnly(r) ==
    [ ts |-> r.ts, date_only |-> DateOnly(r.ts), category |-> r.category,
      product |-> r.product, region |-> r.region, amount |-> r.amount ]

\* app.py 321-333: the cities that have coordinates.
CITY_COORDS ==
    { "Beijing", "Tianjin", "Shanghai", "Guangzhou", "Shenzhen", "Hangzhou",
      "Nanjing", "Chengdu", "Chongqing", "Wuhan", "Xian" }

\* A plausible slip: an empty selection is taken to mean no restriction.
IsInOrUnrestricted(x, selected) == selected = {} \/ x \in selected

\* app.py 93-94: Series.isin(selected).
IsIn(x, selected) == x \in selected

Lower(ch) == IF ch = "A" THEN "a" ELSE IF ch = "B" THEN "b" ELSE ch

\* re.compile of the keyword: with no ")" in the alphabet every "(" is an
\* unterminated group and raises re.error.
RegexInvalid(pat) == "(" \in Range(pat)

\* app.py 384: str.contains(pat, case=False) is re.search with IGNORECASE, the
\* keyword read as a regular expression: "." matches any character, every
\* other character of the alphabet matches itself in either case.
RegexSearch(pat, text) ==
    \E off \in 0..(Len(text) - Len(pat)) :
        \A i \in 1..Len(pat) :
            pat[i] = "." \/ Lower(pat[i]) = Lower(text[off + i])

\* A plausible slip: the keyword is made part of the page's mask.
MaskWithSearch(r, c) ==
    /\ r.date_only >= c.date_range[1]
    /\ r.date_only <= c.date_range[2]
    /\ IsIn(r.category, c.selected_categories)
    /\ IsIn(r.region, c.selected_regions)
    /\ (c.search_keyword = <<>>
        \/ (~RegexInvalid(c.search_keyword)
            /\ RegexSearch(c.search_keyword, r.product)))

\* app.py 90-95
Mask(r, c) ==
    /\ r.date_only >= c.date_range[1]
    /\ r.date_only <= c.date_range[2]
    /\ IsIn(r.category, c.selected_categories)
    /\ IsIn(r.region, c.selected_regions)

\* app.py 96
FilteredDf(df, c) == SelectSeq(df, LAMBDA r : Mask(r, c))

RECURSIVE SumAmount(_)
SumAmount(rows) == IF rows = <<>> THEN 0 ELSE Head(rows).amount + SumAmount(Tail(rows))

\* A plausible slip: .first() in place of .sum().
GroupFirst(rows, field) ==
    [k \in {rows[i][field] : i \in 1..Len(rows)} |->
        SelectSeq(rows, LAMBDA r : r[field] = k)[1].amount]

\* groupby(field)["amount"].sum(): one entry per value present, the sum of its rows.
GroupSum(rows, field) ==
    [k \in {rows[i][field] : i \in 1..Len(rows)} |->
        SumAmount(SelectSeq(rows, LAMBDA r : r[field] = k))]

RECURSIVE SortedKeys(_)
SortedKeys(S) ==
    IF S = {} THEN <<>>
    ELSE LET m == CHOOSE x \in S : \A y \in S : x <= y
         IN  <<m>> \o SortedKeys(S \ {m})

\* app.py 216-221: the per-day sums, ascending by date.
DailySales(rows) ==
    LET g == GroupSum(rows, "date_only")
        keys == SortedKeys(DOMAIN g)
    IN  [i \in 1..Len(keys) |-> [date |-> keys[i], sales |-> g[keys[i]]]]

\* app.py 335-343: the per-region sums, the regions without coordinates dropped.
CitySales(rows) ==
    LET g == GroupSum(rows, "region")
    IN  [k \in DOMAIN g \cap CITY_COORDS |-> g[k]]

\* The rows of a table as a bag: row -> number of copies.
BagOf(rows) ==
    [r \in Range(rows) |-> Cardinality({i \in 1..Len(rows) : rows[i] = r})]

NoOverview ==
    [ shown |-> FALSE, total_sales |-> 0, total_orders |-> 0, unique_products |-> 0,
      trend_display_pct |-> Zero, trend_direction |-> "none" ]

\* app.py 208-253
Overview(f) ==
    IF f = <<>> THEN NoOverview
    ELSE LET t == TrendOf(DailySales(f))
         IN  [ shown |-> TRUE,
               total_sales |-> SumAmount(f),
               total_orders |-> Len(f),
               unique_products |-> Cardinality({f[i].product : i \in 1..Len(f)}),
               trend_display_pct |-> t.trend_display_pct,
               trend_direction |-> t.trend_direction ]

\* app.py 377-394: the detail listing, as the bag of its rows (their order,
\* descending by timestamp, is not modelled). "error" is re.error raised by
\* str.contains; "none" is the placeholder shown for an empty view.
Listing(f, keyword) ==
    IF f = <<>> THEN [status |-> "none", orders_view |-> BagOf(<<>>)]
    ELSE IF keyword = <<>> THEN [status |-> "shown", orders_view |-> BagOf(f)]
    ELSE IF RegexInvalid(keyword) THEN [status |-> "error", orders_view |-> BagOf(<<>>)]
    ELSE [ status |-> "shown",
           orders_view |-> BagOf(SelectSeq(f, LAMBDA r : RegexSearch(keyword, r.product))) ]

\* app.py 90-394: everything one run renders from the store and the widgets.
Render(df, c) ==
    LET f == FilteredDf(df, c)
    IN  [ filtered_df |-> f,
          overview |-> Overview(f),
          daily_sales |-> IF f = <<>> THEN <<>> ELSE TailN(DailySales(f), 30),
          category_sales |-> GroupSum(f, "category"),
          city_sales |-> CitySales(f),
          listing |-> Listing(f, c.search_keyword) ]

\* The widget state a run leaves: the search box is created only for a
\* non-empty view (app.py 377-378), and Streamlit forgets the value of a
\* widget that a run did not create.
AfterRun(df, c) ==
    IF FilteredDf(df, c) = <<>> THEN [c EXCEPT !.search_keyword = <<>>] ELSE c

(***************************************************************************)
(* Specification SpecFilter: a store of 1..MaxRecords rows drawn from      *)
(* RawRows; each widget change runs the script again.                      *)
(***************************************************************************)
RawRows ==
    { [ts |-> 10, category |-> "fruit", product |-> <<"A", "b">>,
       region |-> "Beijing", amount |-> 10],
      [ts |-> 15, category |-> "veg", product |-> <<"b", "a">>,
       region |-> "Shanghai", amount |-> 6],
      [ts |-> 20, category |-> "fruit", product |-> <<"a", "b">>,
       region |-> "Lhasa", amount |-> 3],
      [ts |-> 20, category |-> "veg", product |-> <<"b", ".">>,
       region |-> "Beijing", amount |-> 5],
      [ts |-> 30, category |-> "veg", product |-> <<"A", "b">>,
       region |-> "Lhasa", amount |-> 0],
      [ts |-> 30, category |-> "fruit", product |-> <<"b", "a">>,
       region |-> "Shanghai", amount |-> 6] }

SearchKeywords ==
    { <<>>, <<"a", "b">>, <<"B">>, <<"b", "b">>, <<".">>, <<"a", ".">>, <<"(">> }

\* app.py 58: sort_values on the date column; rows of equal timestamp in any order.
SortedStores ==
    { s \in SeqsUpTo({WithDateOnly(r) : r \in RawRows}, MaxRecords) :
        /\ Len(s) >= 1
        /\ \A i \in 1..(Len(s) - 1) : s[i].ts <= s[i + 1].ts }

\* app.py 66-67
DateOptions(df) == df[1].date_only .. df[Len(df)].date_only

\* app.py 76
CategoryOptions(df) == {df[i].category : i \in 1..Len(df)}

\* app.py 83
RegionOptions(df) == {df[i].region : i \in 1..Len(df)}

\* app.py 69-88, 378: the widgets' defaults.
DefaultCrit(df) ==
    [ date_range |-> <<df[1].date_only, df[Len(df)].date_only>>,
      selected_categories |-> CategoryOptions(df),
      selected_regions |-> RegionOptions(df),
      search_keyword |-> <<>> ]

FilterInit ==
    /\ raw_df \in SortedStores
    /\ crit = DefaultCrit(raw_df)
    /\ page = Render(raw_df, crit)
    /\ NormIdle /\ CycleIdle /\ TrendIdle

\* One run of the script with the widgets at c.
Rerun(c) ==
    /\ crit' = AfterRun(raw_df, c)
    /\ page' = Render(raw_df, crit')
    /\ UNCHANGED <<raw_df, normVars, cycleVars, trendVars>>

\* The date_input changes; the filter takes any pair of days of the store's
\* range, in either order.
FilterSetDateRange ==
    \E d1 \in DateOptions(raw_df), d2 \in DateOptions(raw_df) :
        Rerun([crit EXCEPT !.date_range = <<d1, d2>>])

FilterSetCategories ==
    \E sel \in SUBSET CategoryOptions(raw_df) :
        Rerun([crit EXCEPT !.selected_categories = sel])

FilterSetRegions ==
    \E sel \in SUBSET RegionOptions(raw_df) :
        Rerun([crit EXCEPT !.selected_regions = sel])

\* The search box exists only on a page with a non-empty view.
FilterSetSearch ==
    /\ page.filtered_df # <<>>
    /\ \E k \in SearchKeywords : Rerun([crit EXCEPT !.search_keyword = k])

FilterNext ==
    \/ FilterSetDateRange
    \/ FilterSetCategories
    \/ FilterSetRegions
    \/ FilterSetSearch

SpecFilter == FilterInit /\ [][FilterNext]_vars

\* The number of copies of row r in a bag of rows.
Copies(bag, r) == IF r \in DOMAIN bag THEN bag[r] ELSE 0

LowerSeq(cs) == [i \in 1..Len(cs) |-> Lower(cs[i])]

\* The filter as specified: date within the range, category and region
\* selected, and the search text absent or a case-insensitive substring of
\* the product name.
Matches(r, c) ==
    /\ DateOnly(r.ts) >= c.date_range[1]
    /\ DateOnly(r.ts) <= c.date_range[2]
    /\ r.category \in c.selected_categories
    /\ r.region \in c.selected_regions
    /\ (c.search_keyword = <<>>
        \/ Contains(LowerSeq(c.search_keyword), LowerSeq(r.product)))

\* C1: a row of the store is in the filter's output (the listing) iff it
\* matches the criteria; matching rows are all there, no other row is.
C1_FilterConjunction ==
    \A r \in Range(raw_df) :
        Copies(page.listing.orders_view, r) =
            IF Matches(r, crit) THEN Copies(BagOf(raw_df), r) ELSE 0

RECURSIVE SumValues(_)
SumValues(f) ==
    IF DOMAIN f = {} THEN 0
    ELSE LET k == CHOOSE x \in DOMAIN f : TRUE
         IN  f[k] + SumValues([x \in DOMAIN f \ {k} |-> f[x]])

\* C4: the category sums add up to the view's total, and the city sums plus
\* the amounts of the rows whose region has no coordinates add up to it too;
\* the total shown is that total.
C4_AggregationConservation ==
    LET view == page.filtered_df
        unmapped == SelectSeq(view, LAMBDA r : r.region \notin CITY_COORDS)
    IN  /\ SumValues(page.category_sales) = SumAmount(view)
        /\ SumValues(page.city_sales) + SumAmount(unmapped) = SumAmount(view)
        /\ DOMAIN page.city_sales = RegionOptions(view) \cap CITY_COORDS
        /\ DOMAIN page.category_sales = CategoryOptions(view)
        /\ page.overview.shown => page.overview.total_sales = SumAmount(view)

\* A view with a mapped and an unmapped region, the unmapped one with sales,
\* and two rows in one category.
C4_Witness ==
    /\ page.overview.shown
    /\ crit.selected_categories # CategoryOptions(raw_df)
    /\ \E i, j \in 1..Len(page.filtered_df) :
          /\ i # j
          /\ page.filtered_df[i].category = page.filtered_df[j].category
          /\ page.filtered_df[i].region \in CITY_COORDS
          /\ page.filtered_df[j].region \notin CITY_COORDS
          /\ page.filtered_df[j].amount > 0

EmptySelection(c) ==
    \/ c.selected_categories = {}
    \/ c.selected_regions = {}
    \/ c.date_range[1] > c.date_range[2]

\* C9: with no category selected, or no region, or an inverted date range,
\* the view is empty and the run completes: no totals, no series, no
\* breakdowns and no listing rows are produced, and nothing raises.
C9_EmptyViewSafety ==
    EmptySelection(crit) =>
        /\ page.filtered_df = <<>>
        /\ page.overview = NoOverview
        /\ page.daily_sales = <<>>
        /\ DOMAIN page.category_sales = {}
        /\ DOMAIN page.city_sales = {}
        /\ DOMAIN page.listing.orders_view = {}
        /\ page.listing.status = "none"

\* A store of several rows filtered with no category selected.
C9_Witness ==
    /\ crit.selected_categories = {}
    /\ crit.selected_regions # {}
    /\ Len(raw_df) >= 2
    /\ page.filtered_df = <<>>

\* C10: a change of the search text alone changes nothing but the listing:
\* the view, the totals, the trend, the daily series and both breakdowns
\* stay as they were, and the listing holds rows of the view only.
C10_SearchOnlyNarrowsListing ==
    [][(/\ raw_df' = raw_df
        /\ crit'.date_range = crit.date_range
        /\ crit'.selected_categories = crit.selected_categories
        /\ crit'.selected_regions = crit.selected_regions) =>
          /\ page'.filtered_df = page.filtered_df
          /\ page'.overview = page.overview
          /\ page'.daily_sales = page.daily_sales
          /\ page'.category_sales = page.category_sales
          /\ page'.city_sales = page.city_sales
          /\ \A r \in DOMAIN page'.listing.orders_view :
                page'.listing.orders_view[r] <= Copies(BagOf(page'.filtered_df), r)]_vars

\* A search that left some rows of the view out of the listing.
C10_Witness ==
    /\ crit.search_keyword # <<>>
    /\ page.overview.shown
    /\ page.listing.status = "shown"
    /\ DOMAIN page.listing.orders_view # {}
    /\ page.listing.orders_view # BagOf(page.filtered_df)

====
